---- MODULE Spec2Model ----
(***************************************************************************)
(* Model of the recipe backend: the history store (backend/database.py),   *)
(* the request handlers in front of it (backend/app.py) and the timing     *)
(* extraction loop of the detail scraper (backend/scraper.py).             *)
(***************************************************************************)
EXTENDS Integers, Sequences, FiniteSets, TLC

VARIABLES
    file,       \* recipe_history.json: [exists, doc, complete]
    clock,      \* value the next datetime.now() returns
    lastOp,     \* the operation that ran last: [op, arg, prev]
    pre,        \* the file as it was before that operation
    ret,        \* what that operation returned
    adds,       \* per identity in the store: Adds since its entry was created
    fresh,      \* capacity scenario: number of distinct recipes added so far
    budget,     \* capacity scenario: re-adds and clears still allowed
    pc,         \* concurrent Adds: the line each request is at
    rec,        \* concurrent Adds: the recipe each request was called with
    snap,       \* concurrent Adds: the history each request read at line 16
    stamp,      \* concurrent Adds: the datetime.now() each request took
    rounds,     \* concurrent Adds: requests each worker has finished
    stale,      \* concurrent Adds: another write landed after this request read
    lastWrite,  \* concurrent Adds: the write that landed last
    okAdds,     \* concurrent Adds: recipes of the Adds that returned
    seen,       \* concurrent Adds: what the last concurrent Read got
    resp,       \* request handlers: the response to the last request
    coreCalls,  \* request handlers: scraper and store calls it made
    elems,      \* timing extraction: texts of the time-classed elements
    idx,        \* timing extraction: the element the loop is at
    prep_time,  \* timing extraction: the three buckets
    cook_time,
    total_time

storeVars == <<file, clock, lastOp, pre, ret, adds>>
capVars == <<fresh, budget>>
concVars == <<pc, rec, snap, stamp, rounds, stale, lastWrite, okAdds, seen>>
apiVars == <<resp, coreCalls>>
timingVars == <<elems, idx, prep_time, cook_time, total_time>>
sideVars == <<apiVars, timingVars>>
vars == <<file, clock, lastOp, pre, ret, adds, fresh, budget,
          pc, rec, snap, stamp, rounds, stale, lastWrite, okAdds, seen,
          resp, coreCalls, elems, idx, prep_time, cook_time, total_time>>

(***************************************************************************)
(* Values                                                                  *)
(***************************************************************************)
\* Python's None in a string-valued field (url, name, source)
None == "None"
\* Python's None in an integer-valued field (lastCooked, cookCount)
NoneInt == 0

\* history[:50]
HISTORY_CAP == 50

\* bounds of the model
MaxAdds == 3
MaxFresh == 52
MaxBudget == 1
MaxRounds == 2
MaxScrape == 3
MaxElems == 2
MaxVal == 2

Urls == {None, "", "u1", "u2"}
Names == {"n1", "n2"}
Sources == {"s1", "s2"}
InCounts == {NoneInt, 9}

\* recipe.model_dump(): every field of the Recipe model is present
Recipe == [url : Urls, name : Names, source : Sources,
           lastCooked : {NoneInt}, cookCount : InCounts, isHistory : {FALSE}]

\* truth value of a string-or-None field: None and "" are falsy
Truthy(v) == v # None /\ v # ""

NoFile == [exists |-> FALSE, doc |-> <<>>, complete |-> TRUE]

\* the two request workers of the concurrent scenario
Procs == {1, 2}

NoRecipe == [url |-> None, name |-> None, source |-> None,
             lastCooked |-> NoneInt, cookCount |-> NoneInt, isHistory |-> FALSE]

NoWrite == [by |-> 0, rec |-> NoRecipe, snap |-> <<>>, stale |-> FALSE]

NothingSeen == [ok |-> TRUE, doc |-> <<>>]

NoResponse == [endpoint |-> "none", status |-> 0, count |-> 0, invalid |-> FALSE]

\* a bucket that holds Python's None
NoText == [kw |-> {}, val |-> 0, upper |-> FALSE]

(***************************************************************************)
(* database.py                                                             *)
(***************************************************************************)
\* get_history: the parsed document, [] when the file does not exist
get_history(f) == IF f.exists THEN f.doc ELSE <<>>

\* a scan that compares urls only
MatchesUrlOnly(r, recipe) == Truthy(recipe.url) /\ r.url = recipe.url

\* the condition of the scan loop for one stored entry r
Matches(r, recipe) ==
    \/ Truthy(recipe.url) /\ r.url = recipe.url
    \/ /\ ~Truthy(recipe.url)
       /\ ~Truthy(r.url)
       /\ r.name = recipe.name
       /\ r.source = recipe.source

\* existing_index: the first matching index, 0 for Python's None
ExistingIndex(history, recipe) ==
    IF \E i \in 1..Len(history) : Matches(history[i], recipe)
    THEN CHOOSE i \in 1..Len(history) :
            /\ Matches(history[i], recipe)
            /\ \A j \in 1..(i - 1) : ~Matches(history[j], recipe)
    ELSE 0

\* an overlay that does not skip the cook statistics
UpdateExistingNoSkip(r, recipe, now) ==
    [url |-> recipe.url, name |-> recipe.name, source |-> recipe.source,
     lastCooked |-> now, cookCount |-> recipe.cookCount,
     isHistory |-> recipe.isHistory]

\* the existing entry after lastCooked, cookCount (`.get('cookCount', 1) + 1`;
\* every stored entry has the key) and the overlay of all other fields
UpdateExisting(r, recipe, now) ==
    [url |-> recipe.url, name |-> recipe.name, source |-> recipe.source,
     lastCooked |-> now, cookCount |-> r.cookCount + 1,
     isHistory |-> r.isHistory]

\* the incoming dict after the three assignments of the else branch
NewEntry(recipe, now) ==
    [recipe EXCEPT !.lastCooked = now, !.cookCount = 1, !.isHistory = TRUE]

\* an update that leaves the entry where it was
UpdateInPlace(history, i, e) == [history EXCEPT ![i] = e]

\* history.pop(i) followed by history.insert(0, e)
MoveToFront(history, i, e) ==
    <<e>> \o SubSeq(history, 1, i - 1) \o SubSeq(history, i + 1, Len(history))

\* the list after the if/else of add_to_history
Merged(history, recipe, now) ==
    LET i == ExistingIndex(history, recipe) IN
    IF i # 0
    THEN MoveToFront(history, i, UpdateExisting(history[i], recipe, now))
    ELSE <<NewEntry(recipe, now)>> \o history

\* history[-50:], which keeps the oldest end of the list
TruncateKeepsTail(history) ==
    IF Len(history) > HISTORY_CAP
    THEN SubSeq(history, Len(history) - HISTORY_CAP + 1, Len(history))
    ELSE history

\* history[:50]
Truncate(history) ==
    IF Len(history) > HISTORY_CAP THEN SubSeq(history, 1, HISTORY_CAP) ELSE history

\* `return recipe`: the incoming dict, which only the else branch mutated
Returned(history, recipe, now) ==
    IF ExistingIndex(history, recipe) # 0 THEN recipe ELSE NewEntry(recipe, now)

\* the identity an entry is matched under
IdOf(r) == IF Truthy(r.url) THEN <<"url", r.url>> ELSE <<"ns", r.name, r.source>>

IdsOf(history) == {IdOf(history[i]) : i \in 1..Len(history)}

\* bookkeeping: Adds of each stored identity since its entry was created
Counted(old, history, recipe) ==
    [k \in IdsOf(history) |->
        IF k = IdOf(recipe)
        THEN (IF k \in DOMAIN old THEN old[k] ELSE 0) + 1
        ELSE old[k]]

\* add_to_history(recipe), run to completion
AddToHistory(recipe) ==
    /\ file.complete
    /\ LET history == get_history(file)
           doc == Truncate(Merged(history, recipe, clock))
       IN /\ file' = [exists |-> TRUE, doc |-> doc, complete |-> TRUE]
          /\ ret' = Returned(history, recipe, clock)
          /\ adds' = Counted(adds, doc, recipe)
    /\ clock' = clock + 1
    /\ lastOp' = [op |-> "add", arg |-> recipe, prev |-> lastOp.op]
    /\ pre' = file

\* a clear that removes nothing
ClearKeepsFile ==
    /\ ret' = TRUE
    /\ lastOp' = [op |-> "clear", arg |-> None, prev |-> lastOp.op]
    /\ pre' = file
    /\ UNCHANGED <<file, clock, adds>>

\* clear_history()
ClearHistory ==
    /\ file' = IF file.exists THEN NoFile ELSE file
    /\ ret' = TRUE
    /\ adds' = << >>
    /\ lastOp' = [op |-> "clear", arg |-> None, prev |-> lastOp.op]
    /\ pre' = file
    /\ UNCHANGED clock

\* get_history() called by a client
ReadHistory ==
    /\ file.complete
    /\ ret' = get_history(file)
    /\ lastOp' = [op |-> "read", arg |-> None, prev |-> lastOp.op]
    /\ pre' = file
    /\ UNCHANGED <<file, clock, adds>>

(***************************************************************************)
(* The store used by one client at a time                                  *)
(***************************************************************************)
StoreInit ==
    /\ file = NoFile
    /\ clock = 1
    /\ lastOp = [op |-> "init", arg |-> None, prev |-> "init"]
    /\ pre = NoFile
    /\ ret = TRUE
    /\ adds = << >>

CapIdle == fresh = 0 /\ budget = 0

ConcIdle ==
    /\ pc = [p \in Procs |-> "idle"]
    /\ rec = [p \in Procs |-> NoRecipe]
    /\ snap = [p \in Procs |-> <<>>]
    /\ stamp = [p \in Procs |-> NoneInt]
    /\ rounds = [p \in Procs |-> 0]
    /\ stale = [p \in Procs |-> FALSE]
    /\ lastWrite = NoWrite
    /\ okAdds = <<>>
    /\ seen = NothingSeen

ApiIdle == resp = NoResponse /\ coreCalls = 0

TimingIdle ==
    /\ elems = <<>>
    /\ idx = 1
    /\ prep_time = NoText
    /\ cook_time = NoText
    /\ total_time = NoText

Init == StoreInit /\ CapIdle /\ ConcIdle /\ ApiIdle /\ TimingIdle

Add == \E recipe \in Recipe :
    /\ clock <= MaxAdds
    /\ AddToHistory(recipe)
    /\ UNCHANGED <<capVars, concVars, sideVars>>

Clear == ClearHistory /\ UNCHANGED <<capVars, concVars, sideVars>>

Read == ReadHistory /\ UNCHANGED <<capVars, concVars, sideVars>>

Next == Add \/ Clear \/ Read

Spec == Init /\ [][Next]_vars

(***************************************************************************)
(* Properties of the store used by one client at a time                    *)
(***************************************************************************)
doc == file.doc

JustAdded == lastOp.op = "add"

\* the index in the previous document that the last Add matched, 0 if none
MatchedBefore == ExistingIndex(get_history(pre), lastOp.arg)

\* C1: no two stored entries have the same non-empty url, and no two
\* URL-less stored entries have the same (name, source) pair
C1_NoDuplicateIdentity ==
    \A i, j \in 1..Len(doc) :
        i # j =>
            /\ Truthy(doc[i].url) => doc[i].url # doc[j].url
            /\ (~Truthy(doc[i].url) /\ ~Truthy(doc[j].url)) =>
                    <<doc[i].name, doc[i].source>> # <<doc[j].name, doc[j].source>>

\* a URL-less recipe was added a second time next to another stored entry
C1_Witness ==
    /\ JustAdded
    /\ ~Truthy(lastOp.arg.url)
    /\ MatchedBefore # 0
    /\ Len(doc) = 2
    /\ Len(pre.doc) = 2

\* C3: right after Add(x) the entry of x's identity is at the front and the
\* other retained entries keep their relative order
C3_MostRecentFirst ==
    JustAdded =>
        LET x == lastOp.arg
            Other(r) == IdOf(r) # IdOf(x)
            others == SelectSeq(get_history(pre), Other)
        IN /\ Len(doc) >= 1
           /\ IdOf(doc[1]) = IdOf(x)
           /\ Tail(doc) = SubSeq(others, 1, Len(doc) - 1)

\* Add(A), Add(B), Add(A): A went from index 2 back to the front, cooked twice
C3_Witness ==
    /\ JustAdded
    /\ MatchedBefore = 2
    /\ Len(doc) = 2
    /\ doc[1].cookCount = 2
    /\ doc[2].cookCount = 1
    /\ doc[2] = pre.doc[1]

\* C4: a new identity is stored with cookCount 1 and isHistory true; a
\* matched one gets its previous cookCount plus one and the incoming url,
\* name and source, never the incoming cookCount, isHistory or lastCooked;
\* every stored entry has isHistory true and cookCount equal to the number
\* of Adds of its identity since it was created
C4_CookStatistics ==
    /\ JustAdded =>
        LET x == lastOp.arg
            i == MatchedBefore
        IN /\ doc[1].url = x.url
           /\ doc[1].name = x.name
           /\ doc[1].source = x.source
           /\ doc[1].isHistory = TRUE
           /\ doc[1].lastCooked = clock - 1
           /\ doc[1].cookCount = IF i = 0 THEN 1 ELSE pre.doc[i].cookCount + 1
    /\ \A i \in 1..Len(doc) :
        /\ doc[i].isHistory = TRUE
        /\ doc[i].cookCount >= 1
        /\ doc[i].cookCount = adds[IdOf(doc[i])]

\* a stored recipe was added again with other field values and with a
\* cookCount of its own
C4_Witness ==
    /\ JustAdded
    /\ MatchedBefore # 0
    /\ lastOp.arg.cookCount = 9
    /\ pre.doc[MatchedBefore].name # lastOp.arg.name
    /\ doc[1].cookCount = 2

\* C5: the entry Add returns is the entry stored at the front after the call
C5_ReturnsMergedEntry == JustAdded => ret = doc[1]

\* C6: Clear leaves the store absent and succeeds, also on an absent store;
\* Read leaves the store as it was and returns the empty sequence on an
\* absent store; a Read that follows a Clear returns the empty sequence
C6_ClearAndRead ==
    /\ lastOp.op = "clear" => (~file.exists /\ ret = TRUE)
    /\ lastOp.op = "read" =>
        /\ file = pre
        /\ ~file.exists => ret = <<>>
        /\ file.exists => ret = doc
        /\ lastOp.prev = "clear" => ret = <<>>

\* a Read right after a Clear, the store having been written before
C6_Witness ==
    /\ lastOp.op = "read"
    /\ lastOp.prev = "clear"
    /\ clock > 1
    /\ ret = <<>>
    /\ ~file.exists

(***************************************************************************)
(* The store filled past its capacity: distinct recipes are added one      *)
(* after the other, with a few re-adds of a stored recipe and clears in    *)
(* between                                                                 *)
(***************************************************************************)
\* the k-th distinct recipe, as a client sends it
FreshRecipe(k) ==
    [url |-> ToString(k), name |-> "n1", source |-> "s1",
     lastCooked |-> NoneInt, cookCount |-> NoneInt, isHistory |-> FALSE]

\* a stored entry sent again by a client
Resent(e) == [e EXCEPT !.lastCooked = NoneInt, !.cookCount = NoneInt, !.isHistory = FALSE]

InitCap ==
    /\ StoreInit
    /\ fresh = 0
    /\ budget = MaxBudget
    /\ ConcIdle
    /\ ApiIdle
    /\ TimingIdle

CapAddFresh ==
    /\ fresh < MaxFresh
    /\ AddToHistory(FreshRecipe(fresh + 1))
    /\ fresh' = fresh + 1
    /\ UNCHANGED <<budget, concVars, sideVars>>

CapAddAgain ==
    /\ budget > 0
    /\ file.exists
    /\ \E i \in {1, Len(file.doc)} : AddToHistory(Resent(file.doc[i]))
    /\ budget' = budget - 1
    /\ UNCHANGED <<fresh, concVars, sideVars>>

CapClear ==
    /\ budget > 0
    /\ ClearHistory
    /\ budget' = budget - 1
    /\ UNCHANGED <<fresh, concVars, sideVars>>

NextCap == CapAddFresh \/ CapAddAgain \/ CapClear

SpecCap == InitCap /\ [][NextCap]_vars

\* C2: the stored history never has more than 50 entries; an Add of a new
\* recipe to a full history keeps the 49 entries in front, drops the last
\* one, which was cooked least recently, and leaves exactly 50 entries; 51
\* distinct recipes added to an empty store leave the 50 added last
C2_CappedAtFifty ==
    /\ Len(doc) <= 50
    /\ (JustAdded /\ Len(pre.doc) = 50 /\ MatchedBefore = 0) =>
        /\ Len(doc) = 50
        /\ Tail(doc) = SubSeq(pre.doc, 1, 49)
        /\ IdOf(pre.doc[50]) \notin IdsOf(doc)
        /\ \A i \in 1..50 : doc[i].lastCooked > pre.doc[50].lastCooked
    /\ (fresh = 51 /\ budget = MaxBudget) =>
        /\ Len(doc) = 50
        /\ \A i \in 1..50 : doc[i].url = ToString(52 - i)

\* the 51st distinct recipe has just been added to a store holding 50
C2_Witness ==
    /\ JustAdded
    /\ Len(pre.doc) = 50
    /\ MatchedBefore = 0
    /\ fresh = 51
    /\ budget = MaxBudget
    /\ Len(doc) = 50

(***************************************************************************)
(* Two requests inside add_to_history at the same time, and a reader.      *)
(* Line 16 reads the file, lines 20-52 work on the list in memory, line 54 *)
(* opens the file for writing, which empties it, and line 55 writes the    *)
(* document.                                                               *)
(***************************************************************************)
ConcRecipe == [url : {"u1", "u2"}, name : {"n1"}, source : {"s1"},
               lastCooked : {NoneInt}, cookCount : {NoneInt}, isHistory : {FALSE}]

\* a write that inserts without looking for an existing entry
WrittenWithoutScan(p) == Truncate(<<NewEntry(rec[p], stamp[p])>> \o snap[p])

\* the list request p hands to json.dump
Written(p) == Truncate(Merged(snap[p], rec[p], stamp[p]))

InitConc == StoreInit /\ CapIdle /\ ConcIdle /\ ApiIdle /\ TimingIdle

\* a request enters add_to_history(recipe)
Call(p) == \E recipe \in ConcRecipe :
    /\ pc[p] = "idle"
    /\ rounds[p] < MaxRounds
    /\ pc' = [pc EXCEPT ![p] = "L16"]
    /\ rec' = [rec EXCEPT ![p] = recipe]
    /\ UNCHANGED <<storeVars, capVars, sideVars, snap, stamp, rounds, stale, lastWrite, okAdds, seen>>

\* history = get_history(); json.load raises on a document that is not whole
Line16(p) ==
    /\ pc[p] = "L16"
    /\ IF file.complete
       THEN /\ snap' = [snap EXCEPT ![p] = get_history(file)]
            /\ stamp' = [stamp EXCEPT ![p] = clock]
            /\ clock' = clock + 1
            /\ stale' = [stale EXCEPT ![p] = FALSE]
            /\ pc' = [pc EXCEPT ![p] = "L54"]
            /\ UNCHANGED rounds
       ELSE /\ pc' = [pc EXCEPT ![p] = "idle"]
            /\ rounds' = [rounds EXCEPT ![p] = @ + 1]
            /\ UNCHANGED <<snap, stamp, clock, stale>>
    /\ UNCHANGED <<file, lastOp, pre, ret, adds, capVars, sideVars, rec, lastWrite, okAdds, seen>>

\* open(HISTORY_FILE, 'w')
Line54(p) ==
    /\ pc[p] = "L54"
    /\ file' = [exists |-> TRUE, doc |-> <<>>, complete |-> FALSE]
    /\ pc' = [pc EXCEPT ![p] = "L55"]
    /\ UNCHANGED <<clock, lastOp, pre, ret, adds, capVars, sideVars,
                   rec, snap, stamp, rounds, stale, lastWrite, okAdds, seen>>

\* json.dump and the close of the file, then `return recipe`.  When another
\* handle wrote since this one was opened, the bytes of this document land
\* over the other one's: the result is this document, or this document
\* followed by the rest of the longer one, which does not parse.
Line55(p) ==
    /\ pc[p] = "L55"
    /\ \E whole \in BOOLEAN :
        /\ file.doc = <<>> => whole
        /\ file' = [exists |-> TRUE, doc |-> Written(p), complete |-> whole]
    /\ pc' = [pc EXCEPT ![p] = "idle"]
    /\ rounds' = [rounds EXCEPT ![p] = @ + 1]
    /\ stale' = [q \in Procs |->
                    IF q # p /\ pc[q] \in {"L54", "L55"} THEN TRUE ELSE stale[q]]
    /\ lastWrite' = [by |-> p, rec |-> rec[p], snap |-> snap[p], stale |-> stale[p]]
    /\ okAdds' = Append(okAdds, rec[p])
    /\ UNCHANGED <<clock, lastOp, pre, ret, adds, capVars, sideVars, rec, snap, stamp, seen>>

\* json.dump raises part-way (an I/O error): the file keeps what was written
Line55Raises(p) ==
    /\ pc[p] = "L55"
    /\ \E k \in 0..(Len(Written(p)) - 1) :
        file' = [exists |-> TRUE, doc |-> SubSeq(Written(p), 1, k), complete |-> FALSE]
    /\ pc' = [pc EXCEPT ![p] = "idle"]
    /\ rounds' = [rounds EXCEPT ![p] = @ + 1]
    /\ UNCHANGED <<clock, lastOp, pre, ret, adds, capVars, sideVars,
                   rec, snap, stamp, stale, lastWrite, okAdds, seen>>

\* get_history() of another request; json.load raises on a document that is
\* not whole
ConcRead ==
    /\ seen' = IF file.complete
               THEN [ok |-> TRUE, doc |-> get_history(file)]
               ELSE [ok |-> FALSE, doc |-> <<>>]
    /\ UNCHANGED <<storeVars, capVars, sideVars, pc, rec, snap, stamp, rounds, stale, lastWrite, okAdds>>

NextConc ==
    \/ \E p \in Procs : Call(p)
    \/ \E p \in Procs : Line16(p)
    \/ \E p \in Procs : Line54(p)
    \/ \E p \in Procs : Line55(p)
    \/ \E p \in Procs : Line55Raises(p)
    \/ ConcRead

SpecConc == InitConc /\ [][NextConc]_vars

\* C8: at every point in time the persisted document is a whole document,
\* the one before an Add or the one after it, and a Read gets a whole one
C8_AtomicReplace == file.complete /\ seen.ok

\* C9: when an Add writes after another Add's write landed between its read
\* and its write, the stored document is the one computed from what it read:
\* it holds the identities it read plus its own, with its own cookCount one
\* above the count it read, and nothing of the other Add
C9_LastWriterWins ==
    (lastWrite.by # 0 /\ lastWrite.stale /\ file.exists /\ file.complete) =>
        LET x == lastWrite.rec
            s == lastWrite.snap
            i == ExistingIndex(s, x)
        IN /\ IdsOf(doc) = IdsOf(s) \cup {IdOf(x)}
           /\ Len(doc) = Len(s) + (IF i = 0 THEN 1 ELSE 0)
           /\ doc[1].cookCount = IF i = 0 THEN 1 ELSE s[i].cookCount + 1

\* two Adds of different recipes both returned, and the recipe of the one
\* that wrote first is not in the store
C9_Witness ==
    /\ Len(okAdds) = 2
    /\ lastWrite.stale
    /\ file.exists
    /\ file.complete
    /\ IdOf(okAdds[1]) # IdOf(okAdds[2])
    /\ IdOf(okAdds[1]) \notin IdsOf(doc)

(***************************************************************************)
(* app.py: the request handlers.  Each body runs inside                    *)
(*     try: ... except Exception as e: raise HTTPException(500, str(e))    *)
(***************************************************************************)
Return == [kind |-> "return", class |-> "none", status |-> 200]

Raise(class, status) == [kind |-> "raise", class |-> class, status |-> status]

\* the classes `except Exception` catches: fastapi.HTTPException derives
\* from Exception like any other error class
ExceptionClasses == {"HTTPException", "JSONDecodeError", "OSError"}

\* the except clause around a handler body
ExceptException(outcome) ==
    IF outcome.kind = "raise" /\ outcome.class \in ExceptionClasses
    THEN Raise("HTTPException", 500)
    ELSE outcome

\* the status the framework answers with
StatusOf(outcome) == outcome.status

\* allrecipes_results[:max_results] for max_results >= 0, as a length
Sliced(n, max_results) == IF n < max_results THEN n ELSE max_results

IngredientLists == {<<>>, <<"a">>, <<"b">>, <<"a", "b">>}

ApiRecipe == [url : {None, "u1"}, name : {"", "n1"}, source : {"s1"},
              lastCooked : {NoneInt}, cookCount : {NoneInt}, isHistory : {FALSE}]

\* POST /api/search
search == \E ingredients \in IngredientLists, maxResults \in 0..2, scraped \in 0..MaxScrape :
    LET invalid == Len(ingredients) = 0
        body == IF invalid THEN Raise("HTTPException", 400) ELSE Return
    IN /\ resp' = [endpoint |-> "search",
                   status |-> StatusOf(ExceptException(body)),
                   count |-> IF invalid THEN 0 ELSE Sliced(scraped, maxResults),
                   invalid |-> invalid]
       /\ coreCalls' = IF invalid THEN 0 ELSE 1
       /\ UNCHANGED <<storeVars, capVars, concVars, timingVars>>

\* GET /api/history
get_recipe_history ==
    /\ ReadHistory
    /\ resp' = [endpoint |-> "get_history", status |-> StatusOf(ExceptException(Return)),
                count |-> Len(get_history(file)), invalid |-> FALSE]
    /\ coreCalls' = 1
    /\ UNCHANGED <<capVars, concVars, timingVars>>

\* POST /api/history
add_recipe_to_history == \E recipe \in ApiRecipe :
    IF ~Truthy(recipe.name)
    THEN /\ resp' = [endpoint |-> "add_history",
                     status |-> StatusOf(ExceptException(Raise("HTTPException", 400))),
                     count |-> 0, invalid |-> TRUE]
         /\ coreCalls' = 0
         /\ UNCHANGED <<storeVars, capVars, concVars, timingVars>>
    ELSE /\ clock <= MaxAdds
         /\ AddToHistory(recipe)
         /\ resp' = [endpoint |-> "add_history",
                     status |-> StatusOf(ExceptException(Return)),
                     count |-> 1, invalid |-> FALSE]
         /\ coreCalls' = 1
         /\ UNCHANGED <<capVars, concVars, timingVars>>

\* DELETE /api/history
clear_recipe_history ==
    /\ ClearHistory
    /\ resp' = [endpoint |-> "clear_history", status |-> StatusOf(ExceptException(Return)),
                count |-> 0, invalid |-> FALSE]
    /\ coreCalls' = 1
    /\ UNCHANGED <<capVars, concVars, timingVars>>

\* POST /api/recipe/details; scrape_recipe_details returns details or None
get_recipe_details == \E url \in {"", "u1"}, found \in BOOLEAN, n \in 0..MaxScrape :
    LET invalid == url = ""
        body == IF invalid THEN Raise("HTTPException", 400) ELSE Return
    IN /\ resp' = [endpoint |-> "details",
                   status |-> StatusOf(ExceptException(body)),
                   count |-> IF invalid \/ ~found THEN 0 ELSE n,
                   invalid |-> invalid]
       /\ coreCalls' = IF invalid THEN 0 ELSE 1
       /\ UNCHANGED <<storeVars, capVars, concVars, timingVars>>

InitApi == Init

NextApi ==
    \/ search
    \/ get_recipe_history
    \/ add_recipe_to_history
    \/ clear_recipe_history
    \/ get_recipe_details

SpecApi == InitApi /\ [][NextApi]_vars

\* C7: a request that fails validation is answered with 400, never with
\* 500, and makes no scraper or store call
C7_ValidationIsClientFault == resp.invalid => (resp.status = 400 /\ coreCalls = 0)

(***************************************************************************)
(* scraper.py: the timing loop of scrape_recipe_details.  A text is what   *)
(* the substring tests can tell apart: the keywords it contains whatever   *)
(* their case, the rest of it (val), and whether it has upper-case letters *)
(***************************************************************************)
Keywords == {"prep", "cook", "total"}

TimeText == [kw : SUBSET Keywords, val : 1..MaxVal, upper : BOOLEAN]

\* str.lower()
Lower(t) == [t EXCEPT !.upper = FALSE]

\* `word in text` for a lower-cased text
In(word, text) == word \in text.kw

\* a loop body that fills a bucket only while it is empty
LoopBodyKeepsFirst(b, elem) ==
    LET text == Lower(elem) IN
    IF In("prep", text) THEN (IF b.prep = NoText THEN [b EXCEPT !.prep = text] ELSE b)
    ELSE IF In("cook", text) THEN (IF b.cook = NoText THEN [b EXCEPT !.cook = text] ELSE b)
    ELSE IF In("total", text) THEN (IF b.total = NoText THEN [b EXCEPT !.total = text] ELSE b)
    ELSE b

\* the body of `for elem in time_elements`
LoopBody(b, elem) ==
    LET text == Lower(elem) IN
    IF In("prep", text) THEN [b EXCEPT !.prep = text]
    ELSE IF In("cook", text) THEN [b EXCEPT !.cook = text]
    ELSE IF In("total", text) THEN [b EXCEPT !.total = text]
    ELSE b

Buckets == [prep |-> prep_time, cook |-> cook_time, total |-> total_time]

InitTiming ==
    /\ StoreInit /\ CapIdle /\ ConcIdle /\ ApiIdle
    /\ elems \in UNION {[1..n -> TimeText] : n \in 0..MaxElems}
    /\ idx = 1
    /\ prep_time = NoText
    /\ cook_time = NoText
    /\ total_time = NoText

TimingStep ==
    /\ idx <= Len(elems)
    /\ LET b == LoopBody(Buckets, elems[idx])
       IN /\ prep_time' = b.prep
          /\ cook_time' = b.cook
          /\ total_time' = b.total
    /\ idx' = idx + 1
    /\ UNCHANGED <<storeVars, capVars, concVars, apiVars, elems>>

NextTiming == TimingStep

SpecTiming == InitTiming /\ [][NextTiming]_vars

\* the elements seen so far whose text goes to each bucket
GoesToPrep(i) == "prep" \in elems[i].kw
GoesToCook(i) == "prep" \notin elems[i].kw /\ "cook" \in elems[i].kw
GoesToTotal(i) == elems[i].kw = {"total"}

Seen == 1..(idx - 1)

\* the lower-cased text of the first, or last, seen element that G selects
FirstOf(G(_)) ==
    IF \E i \in Seen : G(i)
    THEN Lower(elems[CHOOSE i \in Seen : G(i) /\ \A j \in Seen : G(j) => i <= j])
    ELSE NoText

LastOf(G(_)) ==
    IF \E i \in Seen : G(i)
    THEN Lower(elems[CHOOSE i \in Seen : G(i) /\ \A j \in Seen : G(j) => j <= i])
    ELSE NoText

\* C10 as stated: each bucket holds the text of the first element that
\* classifies into it; later ones are ignored
C10_FirstMatchWins ==
    /\ prep_time = FirstOf(GoesToPrep)
    /\ cook_time = FirstOf(GoesToCook)
    /\ total_time = FirstOf(GoesToTotal)

\* C10 amended: each bucket holds the lower-cased text of the last element
\* that classifies into it (prep before cook before total); a later element
\* of the same bucket replaces the earlier one
C10_LastMatchWins ==
    /\ prep_time = LastOf(GoesToPrep)
    /\ cook_time = LastOf(GoesToCook)
    /\ total_time = LastOf(GoesToTotal)

\* two elements with different texts went to the prep bucket, which holds
\* the second
C10_Witness ==
    /\ idx = 3
    /\ GoesToPrep(1)
    /\ GoesToPrep(2)
    /\ Lower(elems[1]) # Lower(elems[2])
    /\ prep_time = Lower(elems[2])

====
